---- MODULE Spec2Model ----
(***************************************************************************)
(* The language server protocol adapter of the Gleam compiler CLI          *)
(* (compiler-cli/src/lsp/protocol_adapter.rs): the session loop `run`, the *)
(* message router `handle_message`, the request and notification handlers  *)
(* and the feedback publishers.                                            *)
(*                                                                         *)
(* The transport is a pair of channels.  `inbox` is connection.receiver    *)
(* (what the client has sent and the adapter has not yet taken), `outbox`  *)
(* is everything the adapter has passed to connection.sender, in order.    *)
(* The engine (LanguageServer) is opaque: each of its operations returns a *)
(* Feedback chosen by the engine, which the model draws from Feedbacks.    *)
(* The outbound channel is assumed to stay connected, so no send fails.    *)
(***************************************************************************)
EXTENDS Naturals, Sequences, FiniteSets, TLC

\* How many messages the client sends in one session.
MaxMessages == 2

\* Request ids the client uses are 1..MaxId.
MaxId == 2

VARIABLES
    pc,                 \* where `run` is: "Starting", "Ready", "Terminated" (returned Ok), "Aborted" (panicked)
    initialise_params,  \* self.initialise_params: the client capability snapshot
    server,             \* self.server: the identity (generation) of the engine handle
    inbox,              \* connection.receiver: inbound messages queued, oldest first
    closed,             \* the client has dropped its end of the inbound channel
    sent,               \* how many messages the client has sent
    outbox,             \* connection.sender: every outbound message, in send order
    routed,             \* the messages `run` has passed to handle_message, in order
    drained,            \* the messages taken off the receiver inside handle_shutdown
    engineLog,          \* the engine operations invoked, in order, with the handle used
    cycles              \* one record per publish_feedback call: its Feedback and its span of outbox

vars == <<pc, initialise_params, server, inbox, closed, sent, outbox, routed, drained, engineLog, cycles>>

(***************************************************************************)
(* Values                                                                  *)
(***************************************************************************)

\* Option<T>
None == [tag |-> "None"]
Some(v) == [tag |-> "Some", value |-> v]

\* lsp_server::RequestId
I32(n) == [I32 |-> n]
Str(s) == [String |-> s]

\* InitializeParams.capabilities, down to the one flag the adapter reads.
WatchedFilesCapabilities == {[dynamic_registration |-> d] : d \in {None, Some(TRUE), Some(FALSE)}}
WorkspaceCapabilities == {[did_change_watched_files |-> wf] : wf \in {None} \cup {Some(c) : c \in WatchedFilesCapabilities}}
InitializeParams == {[capabilities |-> [workspace |-> w]] : w \in {None} \cup {Some(c) : c \in WorkspaceCapabilities}}

\* The request methods handle_request knows.
RequestMethods == {"textDocument/formatting", "textDocument/hover", "textDocument/definition", "textDocument/completion"}

\* The document notification methods handle_notification knows, whose parameters it decodes.
DocumentNotificationMethods == {"textDocument/didOpen", "textDocument/didSave", "textDocument/didClose", "textDocument/didChange"}

WatchedFilesMethod == "workspace/didChangeWatchedFiles"

ShutdownMethod == "shutdown"

ExitMethod == "exit"

\* Methods the adapter has no arm for.
OtherRequestMethods == {"workspace/symbol"}
OtherNotificationMethods == {"foo/bar", ExitMethod}

\* raw_params: whether they deserialize to the parameter type of the method.
ParamShapes == {"valid", "invalid"}

Request(id, method, params) == [kind |-> "Request", id |-> id, method |-> method, params |-> params]
Notification(method, params) == [kind |-> "Notification", method |-> method, params |-> params]
Response(id) == [kind |-> "Response", id |-> id]

ClientIds == {I32(n) : n \in 1..MaxId}

\* The engine operation behind each method.
EngineOp(method) ==
    CASE method = "textDocument/formatting" -> "format"
      [] method = "textDocument/hover" -> "hover"
      [] method = "textDocument/definition" -> "goto_definition"
      [] method = "textDocument/completion" -> "completion"
      [] method = "textDocument/didOpen" -> "text_document_did_open"
      [] method = "textDocument/didSave" -> "text_document_did_save"
      [] method = "textDocument/didClose" -> "text_document_did_close"
      [] method = "textDocument/didChange" -> "text_document_did_change"

(***************************************************************************)
(* Feedback                                                                *)
(***************************************************************************)

\* gleam_core::diagnostic::Diagnostic, down to what the adapter and the
\* translation read: the level, the text and whether it has a location.
Diagnostic(level, text, located) == [level |-> level, text |-> text, located |-> located]

ErrA == Diagnostic("Error", "unknown variable", TRUE)
WarnA == Diagnostic("Warning", "unused import", TRUE)
ErrB == Diagnostic("Error", "type mismatch", TRUE)
ErrNoLoc == Diagnostic("Error", "cannot read file", FALSE)
MsgErr == Diagnostic("Error", "compile failed", FALSE)
MsgWarn == Diagnostic("Warning", "old gleam.toml key", FALSE)

PathA == "/project/src/a.gleam"
PathB == "/project/src/b.gleam"
Paths == {PathA, PathB}

EmptyMap == [p \in {} |-> <<>>]

\* The Feedback values the engine returns in the model: nothing at all; one
\* file whose diagnostics are now none; two files, one of them with a
\* diagnostic that has no protocol form.
Feedbacks ==
    { [diagnostics |-> EmptyMap, messages |-> <<>>],
      [diagnostics |-> [p \in {PathA} |-> <<>>], messages |-> <<MsgWarn>>],
      [diagnostics |-> [p \in {PathA, PathB} |-> IF p = PathA THEN <<WarnA, ErrNoLoc, ErrA>> ELSE <<ErrB>>],
       messages |-> <<MsgErr, MsgWarn>>] }

(***************************************************************************)
(* Publishers                                                              *)
(***************************************************************************)

\* The orders in which a HashMap with key set S may be iterated.
Orders(S) == {o \in [1..Cardinality(S) -> S] : \A i, j \in 1..Cardinality(S) : i # j => o[i] # o[j]}

\* super::path_to_uri: the file URL of a path.
path_to_uri(path) == [scheme |-> "file", path |-> path]

\* super::diagnostic_to_lsp: the protocol form of a diagnostic, or nothing
\* when it cannot be represented (it has no location).
diagnostic_to_lsp(d) ==
    IF d.located
    THEN <<[severity |-> IF d.level = "Error" THEN "ERROR" ELSE "WARNING", message |-> d.text]>>
    ELSE <<>>

\* diagnostics.into_iter().flat_map(|d| diagnostic_to_lsp(d)).collect()
RECURSIVE FlatMapDiagnostics(_)
FlatMapDiagnostics(ds) ==
    IF ds = <<>> THEN <<>> ELSE diagnostic_to_lsp(Head(ds)) \o FlatMapDiagnostics(Tail(ds))

\* What the client shows for `path` after the messages in `box`: the list of
\* the latest textDocument/publishDiagnostics for it, if there was one.
DisplayedIn(box, path) ==
    LET published == {i \in DOMAIN box : /\ box[i].kind = "Notification"
                                         /\ box[i].method = "textDocument/publishDiagnostics"
                                         /\ box[i].params.uri = path_to_uri(path)}
    IN  IF published = {} THEN None
        ELSE Some(box[CHOOSE i \in published : \A j \in published : j <= i].params.diagnostics)

\* A publisher that skips the files whose list is empty.
publish_diagnostics_skipping_empty(diagnostics, order) ==
    LET kept == SelectSeq(order, LAMBDA path : FlatMapDiagnostics(diagnostics[path]) # <<>>)
    IN  [i \in 1..Len(kept) |->
            Notification("textDocument/publishDiagnostics",
                         [uri |-> path_to_uri(kept[i]),
                          diagnostics |-> FlatMapDiagnostics(diagnostics[kept[i]]),
                          version |-> None])]

\* A publisher that also clears the files the map leaves out.
publish_diagnostics_clearing_absent(diagnostics, order) ==
    LET absent == CHOOSE o \in Orders(Paths \ DOMAIN diagnostics) : TRUE
        all == order \o absent
    IN  [i \in 1..Len(all) |->
            Notification("textDocument/publishDiagnostics",
                         [uri |-> path_to_uri(all[i]),
                          diagnostics |-> IF all[i] \in DOMAIN diagnostics
                                          THEN FlatMapDiagnostics(diagnostics[all[i]]) ELSE <<>>,
                          version |-> None])]

\* A publisher that appends the new list to the one the client already shows.
publish_diagnostics_merging(diagnostics, order) ==
    [i \in 1..Len(order) |->
        Notification("textDocument/publishDiagnostics",
                     [uri |-> path_to_uri(order[i]),
                      diagnostics |-> (IF DisplayedIn(outbox, order[i]) = None THEN <<>>
                                       ELSE DisplayedIn(outbox, order[i]).value)
                                      \o FlatMapDiagnostics(diagnostics[order[i]]),
                      version |-> None])]

\* publish_diagnostics: one notification per entry of the map, in the
\* iteration order `order` of the map.
publish_diagnostics(diagnostics, order) ==
    [i \in 1..Len(order) |->
        Notification("textDocument/publishDiagnostics",
                     [uri |-> path_to_uri(order[i]),
                      diagnostics |-> FlatMapDiagnostics(diagnostics[order[i]]),
                      version |-> None])]

\* A publisher that shows every message as an error.
publish_notifications_as_errors(messages) ==
    [i \in 1..Len(messages) |->
        Notification("window/showMessage", [typ |-> "ERROR", message |-> messages[i].text])]

\* publish_notifications: one window/showMessage per message, in order.
publish_notifications(messages) ==
    [i \in 1..Len(messages) |->
        Notification("window/showMessage",
                     [typ |-> IF messages[i].level = "Error" THEN "ERROR" ELSE "WARNING",
                      message |-> messages[i].text])]

\* A publisher that shows the messages before it sends the diagnostics.
publish_feedback_messages_first(feedback, order) ==
    publish_notifications(feedback.messages) \o publish_diagnostics(feedback.diagnostics, order)

\* A publisher that reserves the progress token again before each Feedback.
publish_feedback_reserving_token(feedback, order) ==
    <<Request(Str("again"), "window/workDoneProgress/create", [token |-> Str("again")])>>
        \o publish_diagnostics(feedback.diagnostics, order)
        \o publish_notifications(feedback.messages)

\* publish_feedback: the diagnostics, then the messages.
publish_feedback(feedback, order) ==
    publish_diagnostics(feedback.diagnostics, order) \o publish_notifications(feedback.messages)

\* The record kept of one publish_feedback call that sent `out` after `before`.
Cycle(feedback, before, out) ==
    [feedback |-> feedback, first |-> Len(before) + 1, last |-> Len(before) + Len(out)]

(***************************************************************************)
(* Capability negotiation                                                  *)
(***************************************************************************)

\* A check that only refuses an explicit `false`.
supports_watch_files_unless_false(params) ==
    LET workspace == params.capabilities.workspace
        watched == IF workspace = None THEN None ELSE workspace.value.did_change_watched_files
    IN  IF watched = None THEN FALSE ELSE watched.value.dynamic_registration # Some(FALSE)

\* A negotiation that registers the watcher whatever the client declared.
supports_watch_files_always(params) == TRUE

\* Option::and_then, Option::map, Option::unwrap_or on the capability chain
\* of start_watching_gleam_toml.
supports_watch_files(params) ==
    LET workspace == params.capabilities.workspace
        watched == IF workspace = None THEN None ELSE workspace.value.did_change_watched_files
        flag == IF watched = None THEN None ELSE Some(watched.value.dynamic_registration = Some(TRUE))
    IN  IF flag = None THEN FALSE ELSE flag.value

\* start_watching_gleam_toml: what it sends.
start_watching_gleam_toml(params) ==
    IF ~supports_watch_files(params)
    THEN <<>>
    ELSE <<Request(I32(1), "client/registerCapability",
                   [registrations |->
                       <<[id |-> "watch-gleam-toml",
                          method |-> WatchedFilesMethod,
                          register_options |-> Some([watchers |-> <<[glob_pattern |-> "gleam.toml", kind |-> Some("Change")]>>])]>>])>>

\* The two strings imported from the parent module; only their being fixed matters here.
COMPILING_PROGRESS_TOKEN == "COMPILING_PROGRESS_TOKEN"
CREATE_COMPILING_PROGRESS_TOKEN == "CREATE_COMPILING_PROGRESS_TOKEN"

\* create_compilation_progress_token: what it sends.
create_compilation_progress_token ==
    <<Request(Str(CREATE_COMPILING_PROGRESS_TOKEN), "window/workDoneProgress/create",
              [token |-> Str(COMPILING_PROGRESS_TOKEN)])>>

(***************************************************************************)
(* The client                                                              *)
(***************************************************************************)

\* Every message the client may send.
Messages ==
    {Request(id, m, ps) : id \in ClientIds, m \in RequestMethods, ps \in ParamShapes}
    \cup {Request(id, m, "valid") : id \in ClientIds, m \in {ShutdownMethod} \cup OtherRequestMethods}
    \cup {Notification(m, ps) : m \in DocumentNotificationMethods \cup {WatchedFilesMethod}, ps \in ParamShapes}
    \cup {Notification(m, "valid") : m \in OtherNotificationMethods}
    \cup {Response(I32(1)), Response(Str(CREATE_COMPILING_PROGRESS_TOKEN))}

\* The client sends one more message.  Once `run` has ended nothing reads
\* the receiver any more, so later sends are not modelled.
ClientSend ==
    /\ pc \in {"Starting", "Ready"}
    /\ ~closed
    /\ sent < MaxMessages
    /\ \E m \in Messages : inbox' = Append(inbox, m)
    /\ sent' = sent + 1
    /\ UNCHANGED <<pc, initialise_params, server, closed, outbox, routed, drained, engineLog, cycles>>

\* The client drops its end of the channel (its input stream ends).
ClientClose ==
    /\ pc \in {"Starting", "Ready"}
    /\ ~closed
    /\ closed' = TRUE
    /\ UNCHANGED <<pc, initialise_params, server, inbox, sent, outbox, routed, drained, engineLog, cycles>>

(***************************************************************************)
(* LanguageServerProtocolAdapter                                           *)
(***************************************************************************)

\* LanguageServerProtocolAdapter::new, for any capabilities the client declared.
Init ==
    /\ pc = "Starting"
    /\ initialise_params \in InitializeParams
    /\ server = 0
    /\ inbox = <<>>
    /\ closed = FALSE
    /\ sent = 0
    /\ outbox = <<>>
    /\ routed = <<>>
    /\ drained = <<>>
    /\ engineLog = <<>>
    /\ cycles = <<>>

\* enum Next
Continue == "Continue"
Break == "Break"

\* A loop that breaks whatever the handler returned.
LoopAfter_always_breaks(next) == "Terminated"

\* run, the body of the message loop: where the loop is after a handler returned `next`.
LoopAfter(next) == IF next = Break THEN "Terminated" ELSE "Ready"

\* cast_request and cast_notification: extract succeeds when the raw
\* parameters deserialize to the parameter type; expect panics otherwise.
\* A decoder that accepts any parameters.
cast_notification_lenient(notification) == TRUE

cast_request(request) == request.params = "valid"
cast_notification(notification) == notification.params = "valid"

\* A match whose last arm handles the request as a completion.
request_arm_default_completion(method) ==
    IF method \in RequestMethods THEN EngineOp(method) ELSE "completion"

\* handle_request, the match on the method: the engine operation of the arm
\* taken, or "panic" for the last arm.
request_arm(method) ==
    IF method \in RequestMethods THEN EngineOp(method) ELSE "panic"

\* A match whose last arm recompiles.
notification_arm_default_recompiles(method) ==
    IF method \in DocumentNotificationMethods THEN EngineOp(method) ELSE "recompile"

\* A match whose didSave arm rebuilds the engine handle as well.
notification_arm_did_save_recompiles(method) ==
    IF method \in {WatchedFilesMethod, "textDocument/didSave"} THEN "recompile"
    ELSE IF method \in DocumentNotificationMethods THEN EngineOp(method)
    ELSE "return"

\* handle_notification, the match on the method: the engine operation of the
\* arm taken, "recompile" for the watched-files arm, "return" for the last arm.
notification_arm(method) ==
    IF method \in DocumentNotificationMethods THEN EngineOp(method)
    ELSE IF method = WatchedFilesMethod THEN "recompile"
    ELSE "return"

\* A response that carries a fixed id instead of the request's.
response_with_fixed_id(id, payload) ==
    [kind |-> "Response", id |-> I32(1), error |-> None, result |-> Some(payload)]

\* handle_request: the response it builds.
response(id, payload) ==
    [kind |-> "Response", id |-> id, error |-> None, result |-> Some(payload)]

\* A watched-files arm that keeps the old handle.
create_new_compiler_keeps_handle(handle) == handle

\* The handle self.server holds after create_new_compiler returned Ok.
create_new_compiler(handle) == handle + 1

\* One call of an engine operation on the handle self.server holds, made
\* when `at` outbound messages had been sent.
EngineCall(op, handle, at) == [op |-> op, handle |-> handle, at |-> at]

\* The watched-files arm when create_new_compiler returned Ok: the engine
\* calls it makes, given the handle before and after.
recompile_calls(old, new, at) ==
    <<EngineCall("create_new_compiler", old, at), EngineCall("compile_please", new, at)>>

\* run, up to the message loop: the progress token, the watcher, the first
\* compilation and its feedback.
\* A start that asks for the watcher before it reserves the progress token.
startup_requests_watcher_first(params) ==
    start_watching_gleam_toml(params) \o create_compilation_progress_token

\* run, its first two statements: create_compilation_progress_token, then
\* start_watching_gleam_toml. Neither waits for the client's reply.
startup_requests(params) ==
    create_compilation_progress_token \o start_watching_gleam_toml(params)

Startup ==
    /\ pc = "Starting"
    /\ \E feedback \in Feedbacks : \E order \in Orders(DOMAIN feedback.diagnostics) :
          LET negotiated == outbox \o startup_requests(initialise_params)
              published == publish_feedback(feedback, order)
          IN  /\ engineLog' = Append(engineLog, EngineCall("compile_please", server, Len(negotiated)))
              /\ outbox' = negotiated \o published
              /\ cycles' = Append(cycles, Cycle(feedback, negotiated, published))
    /\ pc' = "Ready"
    /\ UNCHANGED <<initialise_params, server, inbox, closed, sent, routed, drained>>

\* The message loop has a message to take: `for message in &connection.receiver`.
Receiving ==
    /\ pc = "Ready"
    /\ inbox # <<>>

\* A loop that carries on after a shutdown request.
shutdown_outcome_continues(next) == LoopAfter(Continue)

\* handle_message, first arm, once handle_shutdown has taken `next` off the
\* receiver: Ok(true) for an exit notification, so the arm returns Break;
\* Err for anything else, and expect("LSP shutdown") panics.
shutdown_outcome(next) ==
    IF next = Notification(ExitMethod, "valid") THEN LoopAfter(Break) ELSE "Aborted"

\* handle_message, first arm: connection.handle_shutdown answers a shutdown
\* request and then waits (up to 30 seconds) for the next message on the
\* receiver: one already queued, one the client sends meanwhile, or none
\* (a timeout or a closed channel), which is an Err as well.
HandleShutdown ==
    /\ Receiving
    /\ LET message == Head(inbox) IN
        /\ message.kind = "Request"
        /\ message.method = ShutdownMethod
        /\ routed' = Append(routed, message)
        /\ outbox' = Append(outbox, response(message.id, "null"))
        /\ \/ /\ Len(inbox) > 1
              /\ inbox' = Tail(Tail(inbox))
              /\ drained' = Append(drained, inbox[2])
              /\ pc' = shutdown_outcome(inbox[2])
              /\ UNCHANGED sent
           \/ /\ Len(inbox) = 1
              /\ ~closed
              /\ sent < MaxMessages
              /\ \E next \in Messages :
                    /\ drained' = Append(drained, next)
                    /\ pc' = shutdown_outcome(next)
              /\ inbox' = <<>>
              /\ sent' = sent + 1
           \/ /\ Len(inbox) = 1
              /\ inbox' = <<>>
              /\ pc' = "Aborted"
              /\ UNCHANGED <<sent, drained>>
        /\ UNCHANGED <<initialise_params, server, closed, engineLog, cycles>>

\* A handler that answers the request before it publishes the Feedback.
request_sends_response_first(published, answer) == <<answer>> \o published

\* handle_request, its last two statements: publish_feedback, then the send
\* of the one response.
request_sends(published, answer) == Append(published, answer)

\* handle_message, second arm: handle_request, for a request handle_shutdown declined.
HandleRequest ==
    /\ Receiving
    /\ LET message == Head(inbox)
           arm == request_arm(message.method)
       IN
        /\ message.kind = "Request"
        /\ message.method # ShutdownMethod
        /\ routed' = Append(routed, message)
        /\ inbox' = Tail(inbox)
        /\ IF arm # "panic" /\ cast_request(message)
           THEN \E feedback \in Feedbacks : \E order \in Orders(DOMAIN feedback.diagnostics) :
                   LET published == publish_feedback(feedback, order)
                   IN  /\ engineLog' = Append(engineLog, EngineCall(arm, server, Len(outbox)))
                       /\ cycles' = Append(cycles, Cycle(feedback, outbox, published))
                       /\ outbox' = outbox \o request_sends(published, response(message.id, arm))
                       /\ pc' = LoopAfter(Continue)
           ELSE \* panic!("Unsupported LSP request"), or the panic of cast_request
                /\ pc' = "Aborted"
                /\ UNCHANGED <<engineLog, cycles, outbox>>
        /\ UNCHANGED <<initialise_params, server, closed, sent, drained>>

\* handle_message, third arm: handle_notification.
HandleNotification ==
    /\ Receiving
    /\ LET message == Head(inbox)
           arm == notification_arm(message.method)
       IN
        /\ message.kind = "Notification"
        /\ routed' = Append(routed, message)
        /\ inbox' = Tail(inbox)
        /\ IF arm = "return"
           THEN /\ pc' = LoopAfter(Continue)
                /\ UNCHANGED <<server, engineLog, cycles, outbox>>
           ELSE IF arm = "recompile"
           THEN \/ \* create_new_compiler returns Ok: a new handle, compiled in full.
                   \E feedback \in Feedbacks : \E order \in Orders(DOMAIN feedback.diagnostics) :
                        LET published == publish_feedback(feedback, order)
                        IN  /\ server' = create_new_compiler(server)
                            /\ engineLog' = engineLog \o recompile_calls(server, server', Len(outbox))
                            /\ cycles' = Append(cycles, Cycle(feedback, outbox, published))
                            /\ outbox' = outbox \o published
                            /\ pc' = LoopAfter(Continue)
                \/ \* create_new_compiler returns Err: expect("create") panics.
                   /\ engineLog' = Append(engineLog, EngineCall("create_new_compiler", server, Len(outbox)))
                   /\ pc' = "Aborted"
                   /\ UNCHANGED <<server, cycles, outbox>>
           ELSE IF cast_notification(message)
           THEN \E feedback \in Feedbacks : \E order \in Orders(DOMAIN feedback.diagnostics) :
                   LET published == publish_feedback(feedback, order)
                   IN  /\ engineLog' = Append(engineLog, EngineCall(arm, server, Len(outbox)))
                       /\ cycles' = Append(cycles, Cycle(feedback, outbox, published))
                       /\ outbox' = outbox \o published
                       /\ pc' = LoopAfter(Continue)
                       /\ UNCHANGED server
           ELSE \* the panic of cast_notification
                /\ pc' = "Aborted"
                /\ UNCHANGED <<server, engineLog, cycles, outbox>>
        /\ UNCHANGED <<initialise_params, closed, sent, drained>>

\* A last arm that leaves the loop.
response_arm_breaks == Break

\* handle_message, last arm: Message::Response(_) => Ok(Next::Continue).
response_arm == Continue

\* handle_message, last arm: a response is dropped.
HandleResponse ==
    /\ Receiving
    /\ LET message == Head(inbox) IN
        /\ message.kind = "Response"
        /\ routed' = Append(routed, message)
        /\ inbox' = Tail(inbox)
    /\ pc' = LoopAfter(response_arm)
    /\ UNCHANGED <<initialise_params, server, closed, sent, outbox, drained, engineLog, cycles>>

\* The receiver's iterator ends when the channel is empty and the client
\* has dropped its end: the loop is left and run returns Ok(()).
RunReturns ==
    /\ pc = "Ready"
    /\ inbox = <<>>
    /\ closed
    /\ pc' = "Terminated"
    /\ UNCHANGED <<initialise_params, server, inbox, closed, sent, outbox, routed, drained, engineLog, cycles>>

Next ==
    \/ ClientSend
    \/ ClientClose
    \/ Startup
    \/ HandleShutdown
    \/ HandleRequest
    \/ HandleNotification
    \/ HandleResponse
    \/ RunReturns

Spec == Init /\ [][Next]_vars

(***************************************************************************)
(* Properties                                                              *)
(***************************************************************************)

IsShutdown(m) == m.kind = "Request" /\ m.method = ShutdownMethod

\* A shutdown request has been passed to handle_message.
ShutdownObserved == \E i \in DOMAIN routed : IsShutdown(routed[i])

\* This step passes a message to handle_message.
Routes == routed' # routed

\* The message this step passes to handle_message.
RoutedNow == routed'[Len(routed')]

\* The routed requests that satisfy Keep, in order.
RoutedRequests(Keep(_)) == SelectSeq(routed, LAMBDA m : m.kind = "Request" /\ Keep(m))

Ids(msgs) == [i \in 1..Len(msgs) |-> msgs[i].id]

\* C1: once a shutdown request has been received the loop has ended (run has
\* returned or panicked), the shutdown request is the last message routed,
\* the step that routes it sends only the shutdown response and invokes no
\* engine operation, and from then on nothing is routed, sent, invoked or
\* published, whatever is queued behind it.
C1_ShutdownEndsRouting ==
    /\ [](ShutdownObserved => pc \in {"Terminated", "Aborted"} /\ IsShutdown(routed[Len(routed)]))
    /\ [][/\ (Routes /\ IsShutdown(RoutedNow)) =>
                /\ outbox' = Append(outbox, [kind |-> "Response", id |-> RoutedNow.id, error |-> None, result |-> Some("null")])
                /\ UNCHANGED <<engineLog, cycles, server>>
          /\ ShutdownObserved => UNCHANGED <<routed, outbox, engineLog, cycles, server, pc>>]_vars

\* A recognized request was queued behind a shutdown request and the session is over.
C1_Witness ==
    /\ ShutdownObserved
    /\ drained # <<>>
    /\ drained[1].kind = "Request"
    /\ drained[1].method \in RequestMethods
    /\ pc = "Aborted"

IsRecognizedRequest(m) == m.method \in RequestMethods
IsDecodableRecognizedRequest(m) == m.method \in RequestMethods /\ m.params = "valid"

\* The responses handle_request has sent, in order: those that carry an engine result.
HandleRequestResponses ==
    SelectSeq(outbox, LAMBDA m : m.kind = "Response" /\ m.result # Some("null"))

\* C2 as stated: the responses of handle_request carry, one for one and in
\* order, the ids of the recognized requests routed so far.
C2_EveryRecognizedRequestAnswered ==
    Ids(HandleRequestResponses) = Ids(RoutedRequests(IsRecognizedRequest))

\* C2 amended: the responses of handle_request carry, one for one and in
\* order, the ids of the routed recognized requests whose parameters decode;
\* so no other routed message (a notification, a response, a request that
\* aborts the session) adds a response.
C2_DecodableRequestsAnsweredInOrder ==
    Ids(HandleRequestResponses) = Ids(RoutedRequests(IsDecodableRecognizedRequest))

\* Two recognized requests with different ids have both been answered.
C2_Witness ==
    /\ Len(HandleRequestResponses) = 2
    /\ HandleRequestResponses[1].id # HandleRequestResponses[2].id
    /\ pc = "Ready"

IsWatchedFilesChange(m) == m.kind = "Notification" /\ m.method = WatchedFilesMethod

\* The messages of a publish cycle: publishDiagnostics and showMessage notifications only.
IsFeedbackNotification(m) ==
    /\ m.kind = "Notification"
    /\ m.method \in {"textDocument/publishDiagnostics", "window/showMessage"}

\* This step takes exactly the oldest queued message and leaves the later ones queued.
TakesOnlyTheOldest ==
    /\ routed' = Append(routed, Head(inbox))
    /\ inbox' = Tail(inbox)
    /\ drained' = drained

\* This step replaces the engine handle, then runs compile_please on the new
\* handle, then publishes one Feedback, and stays in the loop.
RecompiledInFull ==
    /\ server' # server
    /\ engineLog' = engineLog \o <<[op |-> "create_new_compiler", handle |-> server, at |-> Len(outbox)],
                                   [op |-> "compile_please", handle |-> server', at |-> Len(outbox)]>>
    /\ Len(cycles') = Len(cycles) + 1
    /\ SubSeq(cycles', 1, Len(cycles)) = cycles
    /\ cycles'[Len(cycles')].first = Len(outbox) + 1
    /\ cycles'[Len(cycles')].last = Len(outbox')
    /\ SubSeq(outbox', 1, Len(outbox)) = outbox
    /\ \A i \in Len(outbox) + 1 .. Len(outbox') : IsFeedbackNotification(outbox'[i])
    /\ pc' = "Ready"

\* This step tries to replace the engine handle and panics: nothing compiled, nothing published.
RebuildFailed ==
    /\ engineLog' = Append(engineLog, [op |-> "create_new_compiler", handle |-> server, at |-> Len(outbox)])
    /\ UNCHANGED <<server, outbox, cycles>>
    /\ pc' = "Aborted"

\* C3 as stated: every step that routes workspace/didChangeWatchedFiles
\* rebuilds the handle, compiles the full project on the new handle and
\* publishes that Feedback, before any later queued message is taken.
C3_WatchedFilesAlwaysRecompiles ==
    [][(Routes /\ IsWatchedFilesChange(RoutedNow)) => TakesOnlyTheOldest /\ RecompiledInFull]_vars

\* C3 amended: every step that routes workspace/didChangeWatchedFiles,
\* whatever its parameters, first tries to rebuild the handle; when the rebuild
\* succeeds it compiles the full project on the new handle and publishes that
\* Feedback, when it fails the session aborts with nothing compiled or
\* published; either way no later queued message is taken in between, and
\* none after an abort.
C3_WatchedFilesRecompilesOrAborts ==
    [][/\ (Routes /\ IsWatchedFilesChange(RoutedNow)) =>
             TakesOnlyTheOldest /\ (RecompiledInFull \/ RebuildFailed)
       /\ pc = "Aborted" => UNCHANGED <<routed, inbox, outbox, engineLog, cycles, server, pc>>]_vars

\* A watched-files notification with undecodable parameters was routed while
\* a later message was queued: the handle is new, the later message still queued.
C3_Witness ==
    /\ routed # <<>>
    /\ routed[Len(routed)] = Notification(WatchedFilesMethod, "invalid")
    /\ server = 1
    /\ engineLog[Len(engineLog)].op = "compile_please"
    /\ engineLog[Len(engineLog)].handle = 1
    /\ inbox # <<>>
    /\ pc = "Ready"

\* The client declared workspace.did_change_watched_files.dynamic_registration = true.
DynamicRegistrationDeclared ==
    LET workspace == initialise_params.capabilities.workspace IN
    /\ workspace.tag = "Some"
    /\ workspace.value.did_change_watched_files.tag = "Some"
    /\ workspace.value.did_change_watched_files.value.dynamic_registration.tag = "Some"
    /\ workspace.value.did_change_watched_files.value.dynamic_registration.value = TRUE

\* The client/registerCapability requests sent so far.
Registrations ==
    SelectSeq(outbox, LAMBDA m : m.kind = "Request" /\ m.method = "client/registerCapability")

\* C4: once start_watching_gleam_toml has run, one client/registerCapability
\* request has been sent if the client declared dynamic watched-file
\* registration with the value true, and none otherwise (the workspace
\* section absent, the watched-files section absent, the flag false or
\* unset); none is sent before.
C4_RegistrationIffDeclared ==
    Len(Registrations) = IF pc # "Starting" /\ DynamicRegistrationDeclared THEN 1 ELSE 0

\* The capability was declared and the registration has been sent.
C4_Witness ==
    /\ pc = "Ready"
    /\ DynamicRegistrationDeclared
    /\ Len(Registrations) = 1
    /\ Registrations[1].params.registrations[1].method = WatchedFilesMethod

\* The textDocument/publishDiagnostics notifications sent in publish cycle c, in order.
PublishedDiagnostics(c) ==
    SelectSeq(SubSeq(outbox, c.first, c.last), LAMBDA m : m.method = "textDocument/publishDiagnostics")

\* The protocol diagnostic `form` is the form of the engine's diagnostic d.
IsFormOf(form, d) ==
    /\ form.message = d.text
    /\ form.severity = (IF d.level = "Error" THEN "ERROR" ELSE "WARNING")

\* The protocol diagnostics `list` are forms of diagnostics of ds, in the order of ds.
RECURSIVE KeepsOrderOf(_, _)
KeepsOrderOf(list, ds) ==
    IF list = <<>> THEN TRUE
    ELSE IF ds = <<>> THEN FALSE
    ELSE \/ IsFormOf(Head(list), Head(ds)) /\ KeepsOrderOf(Tail(list), Tail(ds))
         \/ KeepsOrderOf(list, Tail(ds))

\* C5: in every publish cycle there is exactly one publishDiagnostics
\* notification per key of the Feedback's diagnostics mapping, a key with an
\* empty list included; each notification names one key and carries only
\* diagnostics of that key, in the order the engine returned them.
C5_OneNotificationPerKey ==
    \A n \in DOMAIN cycles :
        LET mapping == cycles[n].feedback.diagnostics
            notes == PublishedDiagnostics(cycles[n])
        IN  /\ Len(notes) = Cardinality(DOMAIN mapping)
            /\ \A path \in DOMAIN mapping : \E i \in DOMAIN notes : notes[i].params.uri.path = path
            /\ \A i \in DOMAIN notes :
                  /\ notes[i].params.uri.path \in DOMAIN mapping
                  /\ KeepsOrderOf(notes[i].params.diagnostics, mapping[notes[i].params.uri.path])

\* A cycle with two keys was published, then a cycle whose one key has an
\* empty list: two notifications, each with its own file's diagnostics, then
\* one with an empty list.
C5_Witness ==
    /\ Len(cycles) = 2
    /\ DOMAIN cycles[1].feedback.diagnostics = {PathA, PathB}
    /\ Len(PublishedDiagnostics(cycles[1])) = 2
    /\ \E i \in 1..2 : /\ PublishedDiagnostics(cycles[1])[i].params.uri.path = PathA
                       /\ Len(PublishedDiagnostics(cycles[1])[i].params.diagnostics) = 2
    /\ cycles[2].feedback.diagnostics = [p \in {PathA} |-> <<>>]
    /\ Len(PublishedDiagnostics(cycles[2])) = 1
    /\ PublishedDiagnostics(cycles[2])[1].params.diagnostics = <<>>

\* The paths for which this step publishes diagnostics in a cycle whose mapping has them as a key.
KeysPublishedNow ==
    IF cycles' = cycles THEN {} ELSE DOMAIN cycles'[Len(cycles')].feedback.diagnostics

\* C6: a publish cycle sends publishDiagnostics only for keys of its mapping,
\* so none at all for an empty mapping; and a step leaves what the client
\* shows for a path as it was unless the step publishes a mapping that has
\* the path as a key: a path left out of later mappings is never cleared.
C6_AbsentPathsNeverCleared ==
    /\ [](\A n \in DOMAIN cycles :
             \A i \in DOMAIN PublishedDiagnostics(cycles[n]) :
                 PublishedDiagnostics(cycles[n])[i].params.uri.path \in DOMAIN cycles[n].feedback.diagnostics)
    /\ [][\A path \in Paths :
             path \notin KeysPublishedNow => DisplayedIn(outbox', path) = DisplayedIn(outbox, path)]_vars

\* A file got a diagnostic in one cycle, the next cycle had an empty mapping
\* and sent nothing, and the client still shows the diagnostic.
C6_Witness ==
    /\ Len(cycles) = 2
    /\ PathB \in DOMAIN cycles[1].feedback.diagnostics
    /\ DOMAIN cycles[2].feedback.diagnostics = {}
    /\ cycles[2].last < cycles[2].first
    /\ DisplayedIn(outbox, PathB) = Some(<<[severity |-> "ERROR", message |-> "type mismatch"]>>)

\* The publish cycles whose mapping has `path` as a key.
CyclesWith(path) == {n \in DOMAIN cycles : path \in DOMAIN cycles[n].feedback.diagnostics}

\* C7: what the client shows for a path is exactly the list derived from the
\* most recent Feedback mapping that had the path as a key (nothing, if none
\* had), and every publishDiagnostics notification carries exactly the list
\* derived from its own cycle's entry for its path, never more.
C7_DisplayedIsLatestMapping ==
    /\ \A path \in Paths :
          DisplayedIn(outbox, path) =
              IF CyclesWith(path) = {} THEN None
              ELSE LET latest == CHOOSE n \in CyclesWith(path) : \A m \in CyclesWith(path) : m <= n
                   IN  Some(FlatMapDiagnostics(cycles[latest].feedback.diagnostics[path]))
    /\ \A n \in DOMAIN cycles :
          \A i \in DOMAIN PublishedDiagnostics(cycles[n]) :
              LET notes == PublishedDiagnostics(cycles[n])[i].params
              IN  notes.diagnostics = FlatMapDiagnostics(cycles[n].feedback.diagnostics[notes.uri.path])

\* A file had diagnostics in one cycle and a different, non-empty, list in a later one.
C7_Witness ==
    /\ Len(cycles) = 3
    /\ cycles[1].feedback.diagnostics = [p \in {PathA} |-> <<>>]
    /\ PathA \in DOMAIN cycles[2].feedback.diagnostics
    /\ cycles[2].feedback.diagnostics[PathA] # <<>>
    /\ cycles[3].feedback.diagnostics = cycles[2].feedback.diagnostics
    /\ DisplayedIn(outbox, PathA) = Some(<<[severity |-> "WARNING", message |-> "unused import"],
                                          [severity |-> "ERROR", message |-> "unknown variable"]>>)

IsUnrecognizedNotification(m) ==
    /\ m.kind = "Notification"
    /\ m.method \notin DocumentNotificationMethods \cup {WatchedFilesMethod}

\* C8: a step that routes a notification whose method is none of didOpen,
\* didSave, didClose, didChange and didChangeWatchedFiles sends nothing,
\* invokes no engine operation, publishes nothing, keeps the engine handle
\* and leaves the loop in Ready with the later messages still queued.
C8_UnrecognizedNotificationIgnored ==
    [][(Routes /\ IsUnrecognizedNotification(RoutedNow)) =>
          /\ UNCHANGED <<outbox, engineLog, cycles, server>>
          /\ TakesOnlyTheOldest
          /\ pc' = "Ready"]_vars

\* foo/bar was the last message routed: nothing but the startup compilation
\* has been invoked and the loop is in Ready.
C8_Witness ==
    /\ routed # <<>>
    /\ routed[Len(routed)] = Notification("foo/bar", "valid")
    /\ Len(engineLog) = 1
    /\ pc = "Ready"

IsUnsupportedRequest(m) ==
    /\ m.kind = "Request"
    /\ m.method \notin RequestMethods \cup {ShutdownMethod}

\* C9: a step that routes a request that is neither a shutdown request nor
\* one of formatting, hover, definition and completion sends nothing (so no
\* response with its id), invokes no engine operation, publishes nothing and
\* aborts the session; after an abort nothing is routed, sent or invoked.
C9_UnsupportedRequestAborts ==
    [][/\ (Routes /\ IsUnsupportedRequest(RoutedNow)) =>
             /\ UNCHANGED <<outbox, engineLog, cycles, server>>
             /\ pc' = "Aborted"
       /\ pc = "Aborted" => UNCHANGED <<routed, inbox, outbox, engineLog, cycles, server, pc>>]_vars

\* An unsupported request aborted the session while a later message was queued.
C9_Witness ==
    /\ routed # <<>>
    /\ IsUnsupportedRequest(routed[Len(routed)])
    /\ inbox # <<>>
    /\ pc = "Aborted"

\* C10 as stated: run has returned normally (the loop is in Terminated) only
\* if a shutdown request has been observed.
C10_TerminatedOnlyAfterShutdown ==
    pc = "Terminated" => ShutdownObserved

\* Routing m may panic: an unsupported request, undecodable parameters, or a
\* watched-files change (whose rebuild may fail).
MayAbort(m) ==
    \/ m.kind = "Request" /\ (m.method \notin RequestMethods \/ m.params # "valid")
    \/ m.kind = "Notification" /\ m.method \in DocumentNotificationMethods /\ m.params # "valid"
    \/ IsWatchedFilesChange(m)

\* C10 amended: the loop leaves Ready for Terminated only in a step that
\* routes a shutdown request, or when the inbound channel is closed and
\* empty; a step that routes any other message leaves the loop in Ready,
\* unless routing that message panics, which aborts the session; so run
\* returns normally only after a shutdown request or the end of the channel.
C10_TerminatesOnShutdownOrClose ==
    /\ [](pc = "Terminated" => ShutdownObserved \/ (closed /\ inbox = <<>>))
    /\ [][/\ (pc # "Terminated" /\ pc' = "Terminated") =>
                /\ pc = "Ready"
                /\ \/ Routes /\ IsShutdown(RoutedNow)
                   \/ ~Routes /\ closed /\ inbox = <<>>
          /\ (Routes /\ ~IsShutdown(RoutedNow)) =>
                \/ pc' = "Ready"
                \/ pc' = "Aborted" /\ MayAbort(RoutedNow)]_vars

\* run returned after the client closed the channel, with messages routed and no shutdown request among them.
C10_Witness ==
    /\ pc = "Terminated"
    /\ ~ShutdownObserved
    /\ closed
    /\ Len(routed) = 2

(***************************************************************************)
(* C11: the order of the start                                             *)
(***************************************************************************)

\* The number of requests the start sends before it analyses the project.
StartupRequestCount == IF DynamicRegistrationDeclared THEN 2 ELSE 1

\* C11: the start sends the request that reserves the progress token first,
\* the watcher registration second when the capability allows one, then runs
\* one full-project analysis on the first engine handle, then publishes that
\* analysis's Feedback; nothing is routed, sent, analysed or published while
\* the loop is Starting, and every engine call and every response made for
\* an inbound message comes after the last notification of the start's
\* Feedback.
C11_StartupInOrder ==
    /\ pc = "Starting" =>
          /\ outbox = <<>> /\ engineLog = <<>> /\ cycles = <<>>
          /\ routed = <<>> /\ drained = <<>>
    /\ pc # "Starting" =>
          /\ Len(outbox) >= StartupRequestCount
          /\ outbox[1].kind = "Request"
          /\ outbox[1].method = "window/workDoneProgress/create"
          /\ DynamicRegistrationDeclared =>
                /\ outbox[2].kind = "Request"
                /\ outbox[2].method = "client/registerCapability"
          /\ engineLog # <<>>
          /\ engineLog[1] = [op |-> "compile_please", handle |-> 0, at |-> StartupRequestCount]
          /\ cycles # <<>>
          /\ cycles[1].first = StartupRequestCount + 1
          /\ cycles[1].last >= StartupRequestCount
          /\ cycles[1].last <= Len(outbox)
          /\ \A i \in cycles[1].first .. cycles[1].last : IsFeedbackNotification(outbox[i])
          /\ \A i \in 2 .. Len(engineLog) : engineLog[i].at >= cycles[1].last
          /\ \A i \in 1 .. Len(outbox) : outbox[i].kind = "Response" => i > cycles[1].last

\* The start has finished, with both requests sent and a Feedback published,
\* although the client never sent anything, so no reply was waited for.
C11_Witness ==
    /\ pc = "Ready"
    /\ sent = 0
    /\ DynamicRegistrationDeclared
    /\ cycles[1].last > cycles[1].first

(***************************************************************************)
(* C12: the startup requests are sent once                                 *)
(***************************************************************************)

\* The requests sent so far that reserve the progress token.
TokenReservations ==
    SelectSeq(outbox, LAMBDA m : m.kind = "Request" /\ m.method = "window/workDoneProgress/create")

\* C12: over a whole session window/workDoneProgress/create is sent exactly
\* once and client/registerCapability at most once, both before the start's
\* Feedback is published; whatever is routed afterwards, a rebuild on
\* workspace/didChangeWatchedFiles included, the adapter sends no request
\* again.
C12_StartupRequestsOnce ==
    /\ pc = "Starting" => TokenReservations = <<>> /\ Registrations = <<>>
    /\ pc # "Starting" =>
          /\ Len(TokenReservations) = 1
          /\ Len(Registrations) <= 1
          /\ \A i \in 1 .. Len(outbox) : outbox[i].kind = "Request" => i < cycles[1].first

\* The watcher was registered, a watched-files change rebuilt the engine
\* handle and a further message was routed: still one request of each kind.
C12_Witness ==
    /\ Len(Registrations) = 1
    /\ Len(routed) = 2
    /\ IsWatchedFilesChange(routed[1])
    /\ server = 1
    /\ Len(cycles) = 3

(***************************************************************************)
(* C13: degraded mode                                                      *)
(***************************************************************************)

\* How many engine calls of the operation op have been made.
CallsOf(op) == Len(SelectSeq(engineLog, LAMBDA c : c.op = op))

\* How many workspace/didChangeWatchedFiles notifications have been routed.
WatchedFilesChangesRouted == Len(SelectSeq(routed, IsWatchedFilesChange))

\* C13 as stated: when the client did not declare dynamic watched-file
\* registration, no registration is sent, the engine handle is never rebuilt
\* and the full-project analysis of the start is the only one, whatever the
\* client sends.
C13_DegradedNeverRebuilds ==
    ~DynamicRegistrationDeclared =>
        /\ Registrations = <<>>
        /\ server = 0
        /\ CallsOf("create_new_compiler") = 0
        /\ CallsOf("compile_please") <= 1

\* C13: when the client did not declare dynamic watched-file registration,
\* no registration is sent; a rebuild of the engine handle is attempted once
\* for each workspace/didChangeWatchedFiles notification routed and never
\* otherwise, and after the start a full-project analysis is run once for
\* each rebuild that succeeded and never otherwise.
C13_DegradedRebuildsOnlyWhenNotified ==
    ~DynamicRegistrationDeclared =>
        /\ Registrations = <<>>
        /\ CallsOf("create_new_compiler") = WatchedFilesChangesRouted
        /\ server <= WatchedFilesChangesRouted
        /\ CallsOf("compile_please") = (IF pc = "Starting" THEN 0 ELSE 1) + server

\* No registration was ever asked for, the client notified a watched-files
\* change all the same, and the engine handle was rebuilt and the project
\* analysed again.
C13_Witness ==
    /\ ~DynamicRegistrationDeclared
    /\ Registrations = <<>>
    /\ WatchedFilesChangesRouted = 1
    /\ server = 1
    /\ CallsOf("compile_please") = 2

(***************************************************************************)
(* C14: the messages of a Feedback                                         *)
(***************************************************************************)

\* The window/showMessage notifications of cycle c, in the order sent.
ShownMessages(c) ==
    SelectSeq(SubSeq(outbox, c.first, c.last), LAMBDA m : m.method = "window/showMessage")

\* C14: every publish cycle sends exactly one window/showMessage
\* notification for each element of its Feedback's messages, in the same
\* order, each carrying one message: an Error as ERROR, a Warning as
\* WARNING, the text unchanged; and no window/showMessage is sent outside a
\* cycle.
C14_OneShowMessagePerMessage ==
    /\ \A n \in DOMAIN cycles :
          LET messages == cycles[n].feedback.messages
              shown == ShownMessages(cycles[n])
          IN  /\ Len(shown) = Len(messages)
              /\ \A i \in DOMAIN messages :
                    /\ shown[i].kind = "Notification"
                    /\ shown[i].params.message = messages[i].text
                    /\ messages[i].level = "Error" => shown[i].params.typ = "ERROR"
                    /\ messages[i].level = "Warning" => shown[i].params.typ = "WARNING"
    /\ \A i \in DOMAIN outbox :
          (outbox[i].kind = "Notification" /\ outbox[i].method = "window/showMessage")
              => \E n \in DOMAIN cycles : cycles[n].first <= i /\ i <= cycles[n].last

\* A Feedback with an error message followed by a warning message has been
\* published.
C14_Witness ==
    \E n \in DOMAIN cycles :
        /\ cycles[n].feedback.messages = <<MsgErr, MsgWarn>>
        /\ Len(ShownMessages(cycles[n])) = 2
        /\ ShownMessages(cycles[n])[1].params.typ = "ERROR"
        /\ ShownMessages(cycles[n])[2].params.typ = "WARNING"

(***************************************************************************)
(* C15: parameters that fail to decode                                     *)
(***************************************************************************)

\* m is a formatting, hover, definition or completion request, or a document
\* notification, whose parameters do not decode.
IsUndecodable(m) ==
    /\ \/ m.kind = "Request" /\ m.method \in RequestMethods
       \/ m.kind = "Notification" /\ m.method \in DocumentNotificationMethods
    /\ m.params = "invalid"

\* C15: a step that routes a recognized request or a recognized document
\* notification whose parameters fail to decode aborts the session before
\* the engine operation is invoked: no engine call is made, no Feedback is
\* published, nothing is sent (so no response for that message), the engine
\* handle is kept; and once the session has aborted no later inbound message
\* is routed and nothing more is sent or invoked.
C15_DecodeFailureAborts ==
    [][/\ (Routes /\ IsUndecodable(RoutedNow)) =>
             /\ pc' = "Aborted"
             /\ engineLog' = engineLog
             /\ cycles' = cycles
             /\ outbox' = outbox
             /\ server' = server
       /\ (pc = "Aborted" /\ IsUndecodable(routed[Len(routed)])) =>
             UNCHANGED <<routed, drained, outbox, engineLog, cycles, server, pc>>]_vars

\* A document notification whose parameters do not decode aborted the
\* session with a later message still queued: only the start's analysis
\* was ever run and only its Feedback published.
C15_Witness ==
    /\ pc = "Aborted"
    /\ Len(routed) = 1
    /\ routed[1].kind = "Notification"
    /\ IsUndecodable(routed[1])
    /\ inbox # <<>>
    /\ Len(engineLog) = 1
    /\ Len(cycles) = 1

(***************************************************************************)
(* C16: the Feedback of a request goes out before its response             *)
(***************************************************************************)

\* What this step sent.
SentNow == SubSeq(outbox', Len(outbox) + 1, Len(outbox'))

\* How many of the messages this step sent are notifications of the method.
SentNowOf(method) ==
    Len(SelectSeq(SentNow, LAMBDA m : m.kind = "Notification" /\ m.method = method))

C18_ResponseDropped ==
    [][(Routes /\ RoutedNow.kind = "Response") =>
          /\ outbox' = outbox
          /\ engineLog' = engineLog
          /\ cycles' = cycles
          /\ server' = server
          /\ TakesOnlyTheOldest
          /\ pc = "Ready"
          /\ pc' = "Ready"]_vars

\* The client's replies to the progress-token request and to the watcher
\* registration have both been routed: only the start's analysis was ever
\* invoked, nothing was sent after the start's Feedback, the loop is in Ready.
C18_Witness ==
    /\ routed = <<Response(Str(CREATE_COMPILING_PROGRESS_TOKEN)), Response(I32(1))>>
    /\ Len(Registrations) = 1
    /\ Len(engineLog) = 1
    /\ Len(outbox) = cycles[1].last
    /\ server = 0
    /\ pc = "Ready"

(***************************************************************************)
(* C19: the engine handle and the capability snapshot                      *)
(***************************************************************************)

\* C19: the engine handle is replaced only by a step that routes a
\* workspace/didChangeWatchedFiles notification, and then by a handle never
\* held before; a step that routes a request, any other notification, a
\* response or a shutdown request, and every other step, keeps the handle;
\* and no step changes the capability snapshot taken at construction.
C19_HandleReplacedOnlyOnWatchedFiles ==
    [][/\ server' # server =>
             /\ Routes
             /\ IsWatchedFilesChange(RoutedNow)
             /\ \A i \in DOMAIN engineLog : engineLog[i].handle # server'
       /\ (Routes /\ ~IsWatchedFilesChange(RoutedNow)) => server' = server
       /\ initialise_params' = initialise_params]_vars

\* A watched-files change replaced the engine handle, and the request routed
\* after it was served by the new handle, which it left in place.
C19_Witness ==
    /\ Len(routed) = 2
    /\ IsWatchedFilesChange(routed[1])
    /\ routed[2].kind = "Request"
    /\ IsDecodableRecognizedRequest(routed[2])
    /\ server = 1
    /\ engineLog[Len(engineLog)].handle = 1
    /\ engineLog[Len(engineLog)].op # "compile_please"

(***************************************************************************)
(* C20: diagnostics before messages                                        *)
(***************************************************************************)

\* C20: within one publish cycle, of the start, of a request or of a
\* notification, every textDocument/publishDiagnostics notification of the
\* cycle's Feedback is sent before any window/showMessage notification of
\* the same Feedback.
C20_DiagnosticsBeforeMessages ==
    \A n \in DOMAIN cycles :
        \A i, j \in cycles[n].first .. cycles[n].last :
            (/\ outbox[i].method = "textDocument/publishDiagnostics"
             /\ outbox[j].method = "window/showMessage") => i < j

\* A cycle that was not the start's sent two diagnostics notifications and
\* then two messages.
C20_Witness ==
    \E n \in DOMAIN cycles :
        /\ n > 1
        /\ cycles[n].last = cycles[n].first + 3
        /\ outbox[cycles[n].first + 1].method = "textDocument/publishDiagnostics"
        /\ outbox[cycles[n].first + 2].method = "window/showMessage"

====
